---- MODULE Spec2Model ----
(***************************************************************************)
(* Model of the GitHub service of koishi-plugin-github (src/src/index.ts): *)
(*   - request(): the authenticated request pipeline with token refresh,   *)
(*   - emit()/on(): the layered webhook event dispatch,                     *)
(*   - history: the reply correlation store.                                *)
(* Every action is one run of the code between two awaits: JavaScript runs *)
(* a callback to its next await without interleaving.                       *)
(***************************************************************************)
EXTENDS Naturals, Sequences, FiniteSets, TLC

\* ------------------------------------------------------------------ bounds
NumReq == 2       \* concurrent calls of request()

NumEmit == 1      \* calls of emit() in progress at a time
MaxOps == 4       \* operations made on the reply correlation store
MaxTime == 3      \* how far the clock runs

Reqs == 1..NumReq
Emits == 1..NumEmit
\* the identities (session.user objects) requests are made for
Idents == {"alice", "bob"}

\* ------------------------------------------------------- JavaScript values
\* JavaScript values are written as strings; the ones below are the falsy ones.
Undef == "undefined"
Null == "null"
False == "false"
Zero == "0"
Empty == ""

Falsy == {Undef, Null, False, Zero, Empty}

\* !v of JavaScript
Not(v) == v \in Falsy

VARIABLES
  tokens,     \* tokens[i] = session.user.github of identity i
  issued,     \* how many token pairs the token endpoint has issued
  rpc,        \* rpc[r]: where call r of request() is suspended
  rident,     \* rident[r]: the identity (session) call r was made with
  rlog,       \* rlog[r]: the outbound calls made by call r, in order
  rgot,       \* rgot[r]: what the awaited calls of call r delivered, in order
  rresult     \* rresult[r]: what the caller of request() observes

VARIABLES
  hooks,      \* hooks[name]: the handlers registered under a hook name, in order
  epc,        \* epc[e]: where call e of emit() is suspended
  eevent,     \* eevent[e]: the event name call e was given
  eaction,    \* eaction[e]: payload.action of call e
  ename,      \* ename[e]: the hook name of the serial call e is running
  equeue,     \* equeue[e]: the callbacks that serial has left, the head running
  evalue,     \* evalue[e]: what that serial resolves with
  elog,       \* elog[e]: the handler invocations of call e, in order
  eresult     \* eresult[e]: what the caller of emit() observes

reqVars == <<tokens, issued, rpc, rident, rlog, rgot, rresult>>
emitVars == <<hooks, epc, eevent, eaction, ename, equeue, evalue, elog, eresult>>
VARIABLES
  history,    \* history[key]: the payload stored under a reply key, or NoEntry
  hlog,       \* the puts and takes made on the store, in order
  hexp,       \* hexp[key]: when the payload last put under key expires
  now         \* the clock

histVars == <<history, hlog, hexp, now>>
vars == <<reqVars, emitVars, histVars>>

\* ---------------------------------------------------------------- outcomes
\* What an awaited call delivers. kind "response" resolves, kind "error"
\* rejects; axios/status are what Quester.isAxiosError(error) and
\* error.response?.status read (status 0: the error has no response);
\* from names the call that produced the object.
Outcome(kind, axios, status, from) ==
  [kind |-> kind, axios |-> axios, status |-> status, from |-> from]

NoOutcome == Outcome("pending", FALSE, 0, "none")

\* the HTTP client resolves with a response or rejects with an error
ApiOutcomes(from) ==
  { Outcome("response", FALSE, 200, from),
    Outcome("error", TRUE, 401, from),
    Outcome("error", TRUE, 404, from),
    Outcome("error", TRUE, 0, from),
    Outcome("error", FALSE, 401, from) }

\* the token endpoint rejects: an HTTP error status, or no response in time
TokenErrors(from) ==
  { Outcome("error", TRUE, 401, from), Outcome("error", TRUE, 0, from) }

\* the retried call settles: a response, or an error of any status
RetryOutcomes(from) ==
  { Outcome("response", FALSE, 200, from),
    Outcome("error", TRUE, 401, from),
    Outcome("error", TRUE, 404, from) }

\* session.send / session.execute resolve (to nothing) or reject
SessionOutcomes(from) ==
  { Outcome("response", FALSE, 0, from), Outcome("error", FALSE, 0, from) }

\* one delivery: the outcome o and, for a token-endpoint response, its body
Got(o, data) == [o |-> o, data |-> data]

\* one outbound call
Call(op, arg, grant) == [op |-> op, arg |-> arg, grant |-> grant]

\* the body of a token-endpoint response: a full pair, a body that lacks
\* fields, or no object at all
NewAccess(n) == "A" \o ToString(n + 2)
NewRefresh(n) == "R" \o ToString(n + 2)

TokenBodies(n) ==
  { [isObject |-> TRUE, access_token |-> a, refresh_token |-> f] :
      a \in {NewAccess(n), Undef}, f \in {NewRefresh(n), Undef} }
  \cup { [isObject |-> FALSE, access_token |-> Undef, refresh_token |-> Undef] }

NoBody == [isObject |-> FALSE, access_token |-> Undef, refresh_token |-> Undef]

\* what the caller of request() observes
Result(how, value) == [how |-> how, value |-> value]

Pending == Result("pending", NoOutcome)

\* authorize() returns nothing
Nothing == Outcome("undefined", FALSE, 0, "authorize")

\* ------------------------------------------------------------------ request
Github(a, f) == [accessToken |-> a, refreshToken |-> f]

\* the authorization header _request builds from the stored access token
Header(accessToken) == "token " \o accessToken

\* a variant of the guard that only recognises a missing field
NoAccessTokenStrict(github) == github.accessToken = Undef

\* request(): the guard of the first statement
NoAccessToken(github) == Not(github.accessToken)

\* a variant of the guard that looks at the status alone
RethrownByStatus(error) == error.status # 401

\* request(): the guard that rethrows the error of the first call
Rethrown(error) == ~error.axios \/ error.status # 401

\* _request(): issues the API call with the access token stored right now
_request(r, github, next) ==
  /\ rlog' = [rlog EXCEPT ![r] = Append(@, Call("api", Header(github.accessToken), ""))]
  /\ rpc' = [rpc EXCEPT ![r] = next]

\* getTokens(): issues the token-endpoint call with the caller's params
getTokens(r, refresh_token, grant_type) ==
  /\ rlog' = [rlog EXCEPT ![r] = Append(@, Call("token", refresh_token, grant_type))]
  /\ rpc' = [rpc EXCEPT ![r] = "refreshing"]

\* authorize(): up to its first await, session.send(message)
authorize(r, message) ==
  /\ rlog' = [rlog EXCEPT ![r] = Append(@, Call("send", message, ""))]
  /\ rpc' = [rpc EXCEPT ![r] = "send"]

\* an awaited call of r delivers o (with body data)
Deliver(r, o, data) == rgot' = [rgot EXCEPT ![r] = Append(@, Got(o, data))]

\* request() settles: the caller observes how/value
Settle(r, how, value) ==
  /\ rresult' = [rresult EXCEPT ![r] = Result(how, value)]
  /\ rpc' = [rpc EXCEPT ![r] = "done"]

\* request() is called with the session of identity i
RequestCall(r, i) ==
  /\ rpc[r] = "idle"
  /\ \A q \in Reqs : q < r => rpc[q] # "idle"
  /\ rident' = [rident EXCEPT ![r] = i]
  /\ IF NoAccessToken(tokens[i])
       THEN authorize(r, "github.require-auth")
       ELSE _request(r, tokens[i], "sent")
  /\ UNCHANGED <<tokens, issued, rgot, rresult, emitVars, histVars>>

\* the first API call resolves: request() returns its response
ApiResolve(r, o) ==
  /\ rpc[r] = "sent"
  /\ o.kind = "response"
  /\ Deliver(r, o, NoBody)
  /\ Settle(r, "return", o)
  /\ UNCHANGED <<tokens, issued, rident, rlog, emitVars, histVars>>

\* the first API call rejects: rethrow, or ask the token endpoint
ApiReject(r, o) ==
  /\ rpc[r] = "sent"
  /\ o.kind = "error"
  /\ Deliver(r, o, NoBody)
  /\ IF Rethrown(o)
       THEN Settle(r, "throw", o) /\ UNCHANGED rlog
       ELSE getTokens(r, tokens[rident[r]].refreshToken, "refresh_token")
            /\ UNCHANGED rresult
  /\ UNCHANGED <<tokens, issued, rident, emitVars, histVars>>

\* a variant that builds the retry's header before it stores the new pair
TokenResolveStale(r, data) ==
  /\ rpc[r] = "refreshing"
  /\ Deliver(r, Outcome("response", FALSE, 200, "refresh"), data)
  /\ issued' = issued + 1
  /\ IF data.isObject
       THEN /\ tokens' = [tokens EXCEPT ![rident[r]] =
                            Github(data.access_token, data.refresh_token)]
            /\ _request(r, tokens[rident[r]], "retry")
       ELSE /\ authorize(r, "github.auth-expired")
            /\ UNCHANGED tokens
  /\ UNCHANGED <<rident, rresult, emitVars, histVars>>

\* the token endpoint resolves with body data: store both fields, retry;
\* reading a field of a body that is no object throws inside the try block
TokenResolve(r, data) ==
  /\ rpc[r] = "refreshing"
  /\ Deliver(r, Outcome("response", FALSE, 200, "refresh"), data)
  /\ issued' = issued + 1
  /\ IF data.isObject
       THEN /\ tokens' = [tokens EXCEPT ![rident[r]] =
                            Github(data.access_token, data.refresh_token)]
            /\ _request(r, tokens'[rident[r]], "retry")
       ELSE /\ authorize(r, "github.auth-expired")
            /\ UNCHANGED tokens
  /\ UNCHANGED <<rident, rresult, emitVars, histVars>>

\* a variant that lets the error of the refresh escape
TokenRejectThrow(r, o) ==
  /\ rpc[r] = "refreshing"
  /\ o.kind = "error"
  /\ Deliver(r, o, NoBody)
  /\ Settle(r, "throw", o)
  /\ UNCHANGED <<tokens, issued, rident, rlog, emitVars, histVars>>

\* a variant that forgets the stored pair when the refresh fails
TokenRejectClear(r, o) ==
  /\ rpc[r] = "refreshing"
  /\ o.kind = "error"
  /\ Deliver(r, o, NoBody)
  /\ authorize(r, "github.auth-expired")
  /\ tokens' = [tokens EXCEPT ![rident[r]] = Github(Empty, Empty)]
  /\ UNCHANGED <<issued, rident, rresult, emitVars, histVars>>

\* the token endpoint rejects: ask the user to authorize again
TokenReject(r, o) ==
  /\ rpc[r] = "refreshing"
  /\ o.kind = "error"
  /\ Deliver(r, o, NoBody)
  /\ authorize(r, "github.auth-expired")
  /\ UNCHANGED <<tokens, issued, rident, rresult, emitVars, histVars>>

\* a variant that reports a failed retry as the failure of the first call
RetrySettleFirst(r, o) ==
  /\ rpc[r] = "retry"
  /\ Deliver(r, o, NoBody)
  /\ Settle(r, IF o.kind = "response" THEN "return" ELSE "throw",
             IF o.kind = "response" THEN o ELSE rgot[r][1].o)
  /\ UNCHANGED <<tokens, issued, rident, rlog, emitVars, histVars>>

\* a variant that refreshes again when the retry fails with 401
RetrySettleAgain(r, o) ==
  /\ rpc[r] = "retry"
  /\ Deliver(r, o, NoBody)
  /\ IF o.kind = "error" /\ ~Rethrown(o)
       THEN getTokens(r, tokens[rident[r]].refreshToken, "refresh_token")
            /\ UNCHANGED rresult
       ELSE Settle(r, IF o.kind = "response" THEN "return" ELSE "throw", o)
            /\ UNCHANGED rlog
  /\ UNCHANGED <<tokens, issued, rident, emitVars, histVars>>

\* the retried API call settles: request() settles the same way
RetrySettle(r, o) ==
  /\ rpc[r] = "retry"
  /\ Deliver(r, o, NoBody)
  /\ Settle(r, IF o.kind = "response" THEN "return" ELSE "throw", o)
  /\ UNCHANGED <<tokens, issued, rident, rlog, emitVars, histVars>>

\* a variant that executes the command whether or not the message was sent
SendSettleAlways(r, o) ==
  /\ rpc[r] = "send"
  /\ Deliver(r, o, NoBody)
  /\ rlog' = [rlog EXCEPT ![r] = Append(@, Call("execute", "github.authorize", ""))]
  /\ rpc' = [rpc EXCEPT ![r] = "execute"]
  /\ UNCHANGED <<tokens, issued, rident, rresult, emitVars, histVars>>

\* authorize(): session.send settles; on success the command is executed
SendSettle(r, o) ==
  /\ rpc[r] = "send"
  /\ Deliver(r, o, NoBody)
  /\ IF o.kind = "response"
       THEN /\ rlog' = [rlog EXCEPT ![r] = Append(@, Call("execute", "github.authorize", ""))]
            /\ rpc' = [rpc EXCEPT ![r] = "execute"]
            /\ UNCHANGED rresult
       ELSE Settle(r, "throw", o) /\ UNCHANGED rlog
  /\ UNCHANGED <<tokens, issued, rident, emitVars, histVars>>

\* authorize(): session.execute settles; request() returns authorize's result
ExecuteSettle(r, o) ==
  /\ rpc[r] = "execute"
  /\ Deliver(r, o, NoBody)
  /\ IF o.kind = "response"
       THEN Settle(r, "return", Nothing)
       ELSE Settle(r, "throw", o)
  /\ UNCHANGED <<tokens, issued, rident, rlog, emitVars, histVars>>

\* one identity is authorized (both tokens stored), the other is not (both
\* fields hold the empty string a string(50) field starts with)
InitTokens == [i \in Idents |-> IF i = "alice" THEN Github("A1", "R1")
                                                ELSE Github(Empty, Empty)]

InitReq ==
  /\ tokens = InitTokens
  /\ issued = 0
  /\ rpc = [r \in Reqs |-> "idle"]
  /\ rident = [r \in Reqs |-> "alice"]
  /\ rlog = [r \in Reqs |-> <<>>]
  /\ rgot = [r \in Reqs |-> <<>>]
  /\ rresult = [r \in Reqs |-> Pending]

NextReq ==
  \/ \E r \in Reqs, i \in Idents : RequestCall(r, i)
  \/ \E r \in Reqs : \E o \in ApiOutcomes("first") : ApiResolve(r, o)
  \/ \E r \in Reqs : \E o \in ApiOutcomes("first") : ApiReject(r, o)
  \/ \E r \in Reqs : \E data \in TokenBodies(issued) : TokenResolve(r, data)
  \/ \E r \in Reqs : \E o \in TokenErrors("refresh") : TokenReject(r, o)
  \/ \E r \in Reqs : \E o \in RetryOutcomes("retry") : RetrySettle(r, o)
  \/ \E r \in Reqs : \E o \in SessionOutcomes("send") : SendSettle(r, o)
  \/ \E r \in Reqs : \E o \in SessionOutcomes("execute") : ExecuteSettle(r, o)

\* --------------------------------------------------------------- emit / on
\* the handlers a plugin may register, and the names on() is given
Handlers == {"H1", "H2"}
Events == {"push", "push/opened"}
Actions == {"opened"}
OnNames == Events \cup { e \o "/" \o a : e \in Events, a \in Actions }

\* what a handler may return; Thrown marks a handler that throws instead
Values == {Undef, False, Zero, Empty, "X", "Y"}
Thrown == "<thrown>"

\* the name of the hook of an event: the string on() and emit() build
HookName(event) == "github/event/" \o event

HookNames == { HookName(n) : n \in OnNames }

\* ctx.serial stops at the first result that bails. A truthy result does;
\* null, undefined and false do not; the other falsy results are left open.
Bails(v) ==
  IF ~Not(v) THEN {TRUE}
  ELSE IF v \in {Undef, Null, False} THEN {FALSE}
  ELSE BOOLEAN

\* the callbacks ctx.serial(name) runs: those registered when it is called
getHooks(name) == IF name \in DOMAIN hooks THEN hooks[name] ELSE <<>>

\* one invocation of handler h under hook name, and how it ended
Invocation(h, name, value) == [h |-> h, name |-> name, value |-> value]

\* what the caller of emit() observes
Emitted(how, value) == [how |-> how, value |-> value]

\* ctx.serial(name, payload) is called by emit e: its first callback starts
serial(e, name, phase) ==
  /\ equeue' = [equeue EXCEPT ![e] = getHooks(name)]
  /\ ename' = [ename EXCEPT ![e] = name]
  /\ evalue' = [evalue EXCEPT ![e] = Undef]
  /\ epc' = [epc EXCEPT ![e] = phase]

\* a variant that tries the action-specific hook for any defined action
HasActionDefined(action) == action # Undef

\* emit(): whether the action-specific hook is tried
HasAction(action) == ~Not(action)

\* a variant that only falls back on undefined
NoResultUndefined(result) == result = Undef

\* a variant that falls back whatever the specific hook yielded
NoResultAlways(result) == TRUE

\* emit(): whether the general hook is tried after the specific one
NoResult(result) == Not(result)


\* a variant that does not pass prepend on
onAppendOnly(h, event, prepend) ==
  /\ \A n \in HookNames : \A k \in 1..Len(hooks[n]) : hooks[n][k] # h
  /\ hooks' = [hooks EXCEPT ![HookName(event)] = Append(@, h)]
  /\ UNCHANGED <<epc, eevent, eaction, ename, equeue, evalue, elog, eresult, reqVars, histVars>>

\* on(event, listener, prepend): register handler h under the hook of event
on(h, event, prepend) ==
  /\ \A n \in HookNames : \A k \in 1..Len(hooks[n]) : hooks[n][k] # h
  /\ hooks' = [hooks EXCEPT ![HookName(event)] =
                 IF prepend THEN <<h>> \o @ ELSE Append(@, h)]
  /\ UNCHANGED <<epc, eevent, eaction, ename, equeue, evalue, elog, eresult, reqVars, histVars>>

\* the handle on() returned is called: handler h is removed
dispose(h) ==
  /\ \E n \in HookNames : \E k \in 1..Len(hooks[n]) : hooks[n][k] = h
  /\ hooks' = [n \in HookNames |-> SelectSeq(hooks[n], LAMBDA x : x # h)]
  /\ UNCHANGED <<epc, eevent, eaction, ename, equeue, evalue, elog, eresult, reqVars, histVars>>

\* emit(event, payload) is called, payload.action being action
emit(e, event, action) ==
  /\ epc[e] \in {"idle", "done"}
  /\ eevent' = [eevent EXCEPT ![e] = event]
  /\ eaction' = [eaction EXCEPT ![e] = action]
  /\ elog' = [elog EXCEPT ![e] = <<>>]
  /\ eresult' = [eresult EXCEPT ![e] = Emitted("pending", Undef)]
  /\ IF HasAction(action)
       THEN serial(e, HookName(event \o "/" \o action), "specific")
       ELSE serial(e, HookName(event), "general")
  /\ UNCHANGED <<hooks, reqVars, histVars>>

\* the running callback of emit e returns v: serial stops, or runs the next
HandlerReturn(e, v, stop) ==
  /\ epc[e] \in {"specific", "general"}
  /\ equeue[e] # <<>>
  /\ stop \in Bails(v)
  /\ elog' = [elog EXCEPT ![e] = Append(@, Invocation(Head(equeue[e]), ename[e], v))]
  /\ IF stop
       THEN /\ evalue' = [evalue EXCEPT ![e] = v]
            /\ equeue' = [equeue EXCEPT ![e] = <<>>]
       ELSE /\ equeue' = [equeue EXCEPT ![e] = Tail(@)]
            /\ UNCHANGED evalue
  /\ UNCHANGED <<hooks, epc, eevent, eaction, ename, eresult, reqVars, histVars>>

\* a variant that passes over a throwing callback as over an empty result
HandlerThrowSwallowed(e) ==
  /\ epc[e] \in {"specific", "general"}
  /\ equeue[e] # <<>>
  /\ elog' = [elog EXCEPT ![e] = Append(@, Invocation(Head(equeue[e]), ename[e], Thrown))]
  /\ equeue' = [equeue EXCEPT ![e] = Tail(@)]
  /\ UNCHANGED <<hooks, epc, eevent, eaction, ename, evalue, eresult, reqVars, histVars>>

\* the running callback of emit e throws: serial rejects, and so does emit
HandlerThrow(e) ==
  /\ epc[e] \in {"specific", "general"}
  /\ equeue[e] # <<>>
  /\ elog' = [elog EXCEPT ![e] = Append(@, Invocation(Head(equeue[e]), ename[e], Thrown))]
  /\ equeue' = [equeue EXCEPT ![e] = <<>>]
  /\ epc' = [epc EXCEPT ![e] = "done"]
  /\ eresult' = [eresult EXCEPT ![e] = Emitted("throw", Thrown)]
  /\ UNCHANGED <<hooks, eevent, eaction, ename, evalue, reqVars, histVars>>

\* the specific serial of emit e has resolved: fall back or return
SpecificResolve(e) ==
  /\ epc[e] = "specific"
  /\ equeue[e] = <<>>
  /\ IF NoResult(evalue[e])
       THEN serial(e, HookName(eevent[e]), "general") /\ UNCHANGED eresult
       ELSE /\ eresult' = [eresult EXCEPT ![e] = Emitted("return", evalue[e])]
            /\ epc' = [epc EXCEPT ![e] = "done"]
            /\ UNCHANGED <<ename, equeue, evalue>>
  /\ UNCHANGED <<hooks, eevent, eaction, elog, reqVars, histVars>>

\* the general serial of emit e has resolved: emit returns its result
GeneralResolve(e) ==
  /\ epc[e] = "general"
  /\ equeue[e] = <<>>
  /\ eresult' = [eresult EXCEPT ![e] = Emitted("return", evalue[e])]
  /\ epc' = [epc EXCEPT ![e] = "done"]
  /\ UNCHANGED <<hooks, eevent, eaction, ename, equeue, evalue, elog, reqVars, histVars>>

InitEmit ==
  /\ hooks = [n \in HookNames |-> <<>>]
  /\ epc = [e \in Emits |-> "idle"]
  /\ eevent = [e \in Emits |-> "push"]
  /\ eaction = [e \in Emits |-> Undef]
  /\ ename = [e \in Emits |-> HookName("push")]
  /\ equeue = [e \in Emits |-> <<>>]
  /\ evalue = [e \in Emits |-> Undef]
  /\ elog = [e \in Emits |-> <<>>]
  /\ eresult = [e \in Emits |-> Emitted("pending", Undef)]

NextEmit ==
  \/ \E h \in Handlers, n \in OnNames, prepend \in BOOLEAN : on(h, n, prepend)
  \/ \E h \in Handlers : dispose(h)
  \/ \E e \in Emits, event \in Events, action \in Actions \cup {Undef, Empty} :
       emit(e, event, action)
  \/ \E e \in Emits, v \in Values, stop \in BOOLEAN : HandlerReturn(e, v, stop)
  \/ \E e \in Emits : HandlerThrow(e)
  \/ \E e \in Emits : SpecificResolve(e)
  \/ \E e \in Emits : GeneralResolve(e)

\* ------------------------------------------------- reply correlation store
\* the reply keys in use; payloads are numbered in the order they are put
Keys == {"k1", "k2"}
NoEntry == 0

HistOp(op, key, payload) == [op |-> op, key |-> key, payload |-> payload]

\* how many payloads have been put so far
Puts == Cardinality({k \in 1..Len(hlog) : hlog[k].op = "put"})

\* replyTimeout, in ticks of the clock
ReplyTimeout == 2

\* put(key, payload): store the payload under the key, to expire in time
put(key) ==
  /\ Len(hlog) < MaxOps
  /\ history' = [history EXCEPT ![key] = Puts + 1]
  /\ hexp' = [hexp EXCEPT ![key] = now + ReplyTimeout]
  /\ hlog' = Append(hlog, HistOp("put", key, Puts + 1))
  /\ UNCHANGED <<now, reqVars, emitVars>>

\* a variant that looks the entry up and leaves it in the store
takeAndKeep(key) ==
  /\ Len(hlog) < MaxOps
  /\ hlog' = Append(hlog, HistOp("take", key, history[key]))
  /\ UNCHANGED <<history, hexp, now, reqVars, emitVars>>

\* takeAndRemove(key): return the payload under the key and remove it, at once
takeAndRemove(key) ==
  /\ Len(hlog) < MaxOps
  /\ hlog' = Append(hlog, HistOp("take", key, history[key]))
  /\ history' = [history EXCEPT ![key] = NoEntry]
  /\ UNCHANGED <<hexp, now, reqVars, emitVars>>

\* a variant of the clock under which nothing expires
TickKeep ==
  /\ now < MaxTime
  /\ now' = now + 1
  /\ UNCHANGED <<history, hlog, hexp, reqVars, emitVars>>

\* time passes: the entries whose timeout has elapsed leave the store
Tick ==
  /\ now < MaxTime
  /\ now' = now + 1
  /\ history' = [k \in Keys |-> IF hexp[k] <= now' THEN NoEntry ELSE history[k]]
  /\ UNCHANGED <<hlog, hexp, reqVars, emitVars>>

\* history = Object.create(null)
InitHist ==
  /\ history = [k \in Keys |-> NoEntry]
  /\ hlog = <<>>
  /\ hexp = [k \in Keys |-> 0]
  /\ now = 0

NextHist ==
  \/ \E key \in Keys : put(key)
  \/ \E key \in Keys : takeAndRemove(key)

\* ----------------------------------------------------------- specifications
Init == InitReq /\ InitEmit /\ InitHist

Next == NextReq \/ NextEmit \/ NextHist

Spec == Init /\ [][Next]_vars

\* request() alone
SpecReq == Init /\ [][NextReq]_vars

\* every call request() awaits settles in the end
StepReq(r) ==
  \/ \E o \in ApiOutcomes("first") : ApiResolve(r, o) \/ ApiReject(r, o)
  \/ \E data \in TokenBodies(issued) : TokenResolve(r, data)
  \/ \E o \in TokenErrors("refresh") : TokenReject(r, o)
  \/ \E o \in RetryOutcomes("retry") : RetrySettle(r, o)
  \/ \E o \in SessionOutcomes("send") : SendSettle(r, o)
  \/ \E o \in SessionOutcomes("execute") : ExecuteSettle(r, o)

SpecReqFair == SpecReq /\ \A r \in Reqs : WF_vars(StepReq(r))

\* emit() and on() alone
SpecEmit == Init /\ [][NextEmit]_vars

\* the reply correlation store alone
SpecHist == Init /\ [][NextHist]_vars

\* the reply correlation store as time passes
NextHistTimed == NextHist \/ Tick

SpecHistTimed == Init /\ [][NextHistTimed]_vars

\* ------------------------------------------------------- claims: request()
\* the operations of the outbound calls of r, in order
Ops(r) == [k \in 1..Len(rlog[r]) |-> rlog[r][k].op]

\* how many calls of kind op call r has issued
CountOp(r, op) == Cardinality({k \in 1..Len(rlog[r]) : rlog[r][k].op = op})

RequireAuth == Call("send", "github.require-auth", "")
AuthExpired == Call("send", "github.auth-expired", "")

Is401(o) == o.kind = "error" /\ o.axios /\ o.status = 401

\* the first API call of r failed with HTTP 401
First401(r) == Len(rgot[r]) >= 1 /\ rgot[r][1].o.from = "first" /\ Is401(rgot[r][1].o)

\* ... and the token endpoint then answered with a body of token fields
Refreshed(r) ==
  /\ First401(r) /\ Len(rgot[r]) >= 2
  /\ rgot[r][2].o.kind = "response" /\ rgot[r][2].data.isObject

\* ... or the token endpoint call then failed
RefreshFailed(r) ==
  First401(r) /\ Len(rgot[r]) >= 2 /\ rgot[r][2].o.kind = "error"

\* the outcome of authorize(), which request() hands to its caller
AuthorizeResult(r) ==
  IF rgot[r][Len(rgot[r])].o.kind = "response"
    THEN Result("return", Nothing)
    ELSE Result("throw", rgot[r][Len(rgot[r])].o)

\* C1: a call of request() on an identity whose access token is empty or
\* absent issues no API call and no token-endpoint call, ever; its first and
\* only step is authorize with the 'github.require-auth' message, once.
C1_NoTokenNoNetwork ==
  /\ [][\A r \in Reqs :
          (rpc[r] = "idle" /\ rpc'[r] # "idle" /\ Not(tokens[rident'[r]].accessToken))
            => rlog'[r] = <<RequireAuth>>]_vars
  /\ [](\A r \in Reqs :
          (rlog[r] # <<>> /\ rlog[r][1] = RequireAuth)
            => /\ CountOp(r, "api") = 0
               /\ CountOp(r, "token") = 0
               /\ CountOp(r, "send") = 1)

C1_Witness ==
  \E r \in Reqs :
    /\ rpc[r] = "done" /\ rlog[r][1] = RequireAuth
    /\ rresult[r] = Result("return", Nothing)

\* C2: when the first API call fails with 401 and the refresh succeeds, the
\* call issues exactly: the API call, one token-endpoint call, one retry, in
\* that order, and the caller observes the outcome of the retry, whatever it is.
C2_RefreshThenRetryOnce ==
  \A r \in Reqs :
    Refreshed(r) =>
      /\ Ops(r) = <<"api", "token", "api">>
      /\ rpc[r] \in {"retry", "done"}
      /\ rpc[r] = "retry" => rresult[r] = Pending
      /\ rpc[r] = "done" =>
           /\ Len(rgot[r]) = 3
           /\ rresult[r] = Result(IF rgot[r][3].o.kind = "response" THEN "return" ELSE "throw",
                                  rgot[r][3].o)

C2_Witness ==
  \E r \in Reqs :
    /\ Refreshed(r) /\ rpc[r] = "done"
    /\ rresult[r].how = "throw" /\ rresult[r].value.status = 404

\* C3: when the first API call fails with 401 and the refresh call fails, the
\* request is not retried and nothing but authorize follows: authorize is
\* invoked with 'github.auth-expired' and request() settles as authorize does,
\* never with the error of the refresh.
C3_RefreshFailAuthorizes ==
  \A r \in Reqs :
    RefreshFailed(r) =>
      /\ Ops(r) \in {<<"api", "token", "send">>, <<"api", "token", "send", "execute">>}
      /\ rlog[r][3] = AuthExpired
      /\ rpc[r] \in {"send", "execute", "done"}
      /\ rpc[r] = "done" => rresult[r] = AuthorizeResult(r)
      /\ rresult[r].value.from # "refresh"

C3_Witness ==
  \E r \in Reqs :
    /\ RefreshFailed(r) /\ rpc[r] = "done"
    /\ rresult[r] = Result("return", Nothing)

\* C4: when the first API call fails with anything but HTTP 401, that is the
\* only call issued: no refresh, no authorize, and the caller gets the very
\* error the call failed with.
C4_OtherErrorPropagates ==
  \A r \in Reqs :
    ( /\ Len(rgot[r]) >= 1 /\ rgot[r][1].o.from = "first"
      /\ rgot[r][1].o.kind = "error" /\ ~Is401(rgot[r][1].o) )
    => /\ rpc[r] = "done"
       /\ Ops(r) = <<"api">>
       /\ Len(rgot[r]) = 1
       /\ rresult[r] = Result("throw", rgot[r][1].o)

C4_Witness ==
  \E r \in Reqs :
    /\ rpc[r] = "done" /\ Len(rgot[r]) = 1
    /\ rgot[r][1].o = Outcome("error", TRUE, 0, "first")
    /\ rresult[r].how = "throw"

\* C5: on a 401 the token endpoint is called with grant_type=refresh_token and
\* the refresh token stored at that moment; when it answers with the pair
\* A2/R2 the identity holds exactly A2/R2 at once and the retry, issued in the
\* same step, carries the header built from A2; the settling of the retry
\* leaves the stored pair alone. This holds with other requests interleaved.
C5_RefreshUsesOwnTokens ==
  [][\A r \in Reqs :
       /\ (rpc[r] = "sent" /\ rpc'[r] = "refreshing")
            => rlog'[r][Len(rlog'[r])]
                 = Call("token", tokens[rident[r]].refreshToken, "refresh_token")
       /\ (rpc[r] = "refreshing" /\ rpc'[r] = "retry")
            => LET d == rgot'[r][Len(rgot'[r])].data IN
               (~Not(d.access_token) /\ ~Not(d.refresh_token))
                 => /\ tokens'[rident[r]] = Github(d.access_token, d.refresh_token)
                    /\ rlog'[r][Len(rlog'[r])] = Call("api", "token " \o d.access_token, "")
       /\ (rpc[r] = "retry" /\ rpc'[r] = "done") => tokens' = tokens]_vars

\* two requests of one identity have both refreshed, and the later refresh
\* has replaced the pair the earlier one stored
C5_Witness ==
  \E r, q \in Reqs :
    /\ r # q /\ rident[r] = rident[q]
    /\ Refreshed(r) /\ Refreshed(q)
    /\ rpc[r] = "done" /\ rpc[q] = "done"
    /\ rgot[r][2].data.access_token = "A2" /\ rgot[q][2].data.access_token = "A3"
    /\ rlog[r][3].arg = "token A2" /\ rlog[q][3].arg = "token A3"
    /\ tokens[rident[r]] = Github("A3", "R3")

\* C6: in every reachable state the two token fields of an identity are both
\* present or both absent.
C6_BothOrNeither ==
  \A i \in Idents : Not(tokens[i].accessToken) <=> Not(tokens[i].refreshToken)

\* C11: for any identity at most one token refresh is in flight at a time.
C11_OneRefreshInFlight ==
  \A r, q \in Reqs :
    (rpc[r] = "refreshing" /\ rpc[q] = "refreshing" /\ rident[r] = rident[q]) => r = q

\* C12: no call of request() issues more than two API calls or more than one
\* token-endpoint call; when the retry fails with 401 nothing follows it and
\* that 401 is what the caller gets.
C12_AtMostOneRetry ==
  \A r \in Reqs :
    /\ CountOp(r, "api") <= 2
    /\ CountOp(r, "token") <= 1
    /\ (Len(rgot[r]) >= 3 /\ rgot[r][3].o.from = "retry" /\ Is401(rgot[r][3].o)) =>
         /\ rpc[r] = "done"
         /\ Ops(r) = <<"api", "token", "api">>
         /\ Len(rgot[r]) = 3
         /\ rresult[r] = Result("throw", rgot[r][3].o)

C12_Witness ==
  \E r \in Reqs :
    /\ rpc[r] = "done" /\ Len(rgot[r]) = 3
    /\ Is401(rgot[r][1].o) /\ Is401(rgot[r][3].o)
    /\ rresult[r].value.from = "retry"

\* the state of the per-request state machine a call is in
ReqState(pc, res) ==
  CASE pc = "idle" -> "Idle"
    [] pc = "sent" -> "Sent"
    [] pc = "refreshing" -> "Refreshing"
    [] pc = "retry" -> "Retry"
    [] pc \in {"send", "execute"} -> "Authorize"
    [] OTHER ->
         IF res.value.from \in {"send", "execute", "authorize"} THEN "Authorize"
         ELSE IF res.value.from \in {"first", "retry"}
                THEN (IF res.how = "return" THEN "Success" ELSE "FailedOther")
                ELSE "Unspecified"

\* the transitions the state machine has
Transitions ==
  { <<"Idle", "Authorize">>, <<"Idle", "Sent">>,
    <<"Sent", "Success">>, <<"Sent", "FailedOther">>, <<"Sent", "Refreshing">>,
    <<"Refreshing", "Retry">>, <<"Refreshing", "Authorize">>,
    <<"Retry", "Success">>, <<"Retry", "FailedOther">> }

\* C14: a call of request() only ever takes transitions of the per-request
\* state machine (no token: Authorize; else Sent, then Success, FailedOther
\* or, on 401, Refreshing, then Retry and Success/FailedOther, or Authorize),
\* and, every awaited call settling in the end, it reaches a terminal state.
C14_StateMachine ==
  /\ [][\A r \in Reqs :
          LET from == ReqState(rpc[r], rresult[r])
              to == ReqState(rpc'[r], rresult'[r]) IN
          /\ from # to => <<from, to>> \in Transitions
          /\ (from = "Idle" /\ to = "Authorize") => Not(tokens[rident'[r]].accessToken)
          /\ (from = "Idle" /\ to = "Sent") => ~Not(tokens[rident'[r]].accessToken)]_vars
  /\ \A r \in Reqs : (rpc[r] # "idle") ~> (rpc[r] = "done")

C14_Witness ==
  \E r, q \in Reqs :
    /\ rpc[r] = "done" /\ rpc[q] = "done"
    /\ ReqState(rpc[r], rresult[r]) = "Success" /\ Ops(r) = <<"api", "token", "api">>
    /\ ReqState(rpc[q], rresult[q]) = "Authorize" /\ Ops(q) = <<"api", "token", "send", "execute">>

\* C18: the stored pair of an identity changes only in the step of request()
\* in which a refresh has succeeded, and only for the identity of that
\* request; every other step of every request leaves every pair alone.
C18_TokensChangeOnlyOnRefresh ==
  [][\A i \in Idents :
       tokens'[i] # tokens[i] =>
         \E r \in Reqs :
           /\ rident[r] = i
           /\ rpc[r] = "refreshing" /\ rpc'[r] = "retry"
           /\ rgot'[r][Len(rgot'[r])].o.kind = "response"
           /\ tokens'[i] = Github(rgot'[r][Len(rgot'[r])].data.access_token,
                                  rgot'[r][Len(rgot'[r])].data.refresh_token)
           /\ \A j \in Idents \ {i} : tokens'[j] = tokens[j]]_vars

\* one request has refreshed alice's pair and left bob's alone; one made for
\* bob has left both alone
C18_Witness ==
  \E r, q \in Reqs :
    /\ r # q /\ rpc[r] = "done" /\ rpc[q] = "done"
    /\ rident[r] = "alice" /\ Refreshed(r)
    /\ rident[q] = "bob"
    /\ tokens["alice"] = Github("A2", "R2")
    /\ tokens["bob"] = Github(Empty, Empty)

\* C20: authorize sends the message before it executes 'github.authorize';
\* when sending fails the command is never executed and request() rejects
\* with the failure of the send.
C20_SendBeforeExecute ==
  \A r \in Reqs : \A k \in 1..Len(rlog[r]) :
    /\ rlog[r][k].op = "execute" =>
         /\ rlog[r][k] = Call("execute", "github.authorize", "")
         /\ k > 1 /\ rlog[r][k - 1].op = "send"
         /\ Len(rgot[r]) >= k - 1 /\ rgot[r][k - 1].o.kind = "response"
    /\ (rlog[r][k].op = "send" /\ Len(rgot[r]) >= k /\ rgot[r][k].o.kind = "error") =>
         /\ k = Len(rlog[r])
         /\ rpc[r] = "done"
         /\ rresult[r] = Result("throw", rgot[r][k].o)

C20_Witness ==
  \E r \in Reqs :
    /\ rpc[r] = "done" /\ Ops(r) = <<"api", "token", "send">>
    /\ rresult[r] = Result("throw", Outcome("error", FALSE, 0, "send"))

\* ---------------------------------------------------- claims: emit / on
\* the hook names emit e uses
SpecificName(e) == HookName(eevent[e] \o "/" \o eaction[e])
GeneralName(e) == HookName(eevent[e])

\* the positions in elog[e] of the invocations made under hook name
Under(e, name) == {k \in 1..Len(elog[e]) : elog[e][k].name = name}

Truthy(v) == ~Not(v) /\ v # Thrown

\* no action-specific handler of emit e has returned a result
NoSpecificResult(e) == \A k \in Under(e, SpecificName(e)) : Not(elog[e][k].value)

\* C7: whenever the action-specific pipeline yielded no result (its handlers
\* all returned empty, none is registered, or the payload has no action), emit
\* runs the general pipeline and returns what that pipeline yields.
C7_FallsBackToGeneral ==
  \A e \in Emits :
    (epc[e] = "done" /\ eresult[e].how = "return" /\ NoSpecificResult(e)) =>
      /\ ename[e] = GeneralName(e)
      /\ eresult[e].value = evalue[e]
      /\ \A k \in Under(e, GeneralName(e)) :
           Truthy(elog[e][k].value) => eresult[e].value = elog[e][k].value
      /\ (\A k \in Under(e, GeneralName(e)) : ~Truthy(elog[e][k].value))
           => Not(eresult[e].value)

\* specific H1 returned empty, general H2 returned X, emit returned X
C7_Witness ==
  \E e \in Emits :
    /\ epc[e] = "done" /\ eevent[e] = "push" /\ eaction[e] = "opened"
    /\ elog[e] = << Invocation("H1", HookName("push/opened"), Undef),
                    Invocation("H2", HookName("push"), "X") >>
    /\ eresult[e] = Emitted("return", "X")

\* C8: a pipeline stops at the first handler that returns a truthy result:
\* no handler is invoked after it for that emit, and emit returns that result.
C8_StopsAtFirstResult ==
  \A e \in Emits : \A k \in 1..Len(elog[e]) :
    Truthy(elog[e][k].value) =>
      /\ k = Len(elog[e])
      /\ equeue[e] = <<>>
      /\ epc[e] = "done" => eresult[e] = Emitted("return", elog[e][k].value)

\* general H1 returned Y while H2, registered after it, was never invoked
C8_Witness ==
  \E e \in Emits :
    /\ epc[e] = "done" /\ eevent[e] = "push"
    /\ hooks[HookName("push")] = <<"H1", "H2">>
    /\ elog[e] = << Invocation("H1", HookName("push"), "Y") >>
    /\ eresult[e] = Emitted("return", "Y")

\* C9: when a handler throws, no further handler is invoked for that emit
\* and emit rejects with what was thrown instead of returning a result.
C9_ThrowPropagates ==
  \A e \in Emits : \A k \in 1..Len(elog[e]) :
    elog[e][k].value = Thrown =>
      /\ k = Len(elog[e])
      /\ epc[e] = "done"
      /\ eresult[e] = Emitted("throw", Thrown)

\* specific H1 threw; neither specific H2 nor the general pipeline ran
C9_Witness ==
  \E e \in Emits :
    /\ epc[e] = "done" /\ eevent[e] = "push" /\ eaction[e] = "opened"
    /\ hooks[HookName("push/opened")] = <<"H1", "H2">>
    /\ elog[e] = << Invocation("H1", HookName("push/opened"), Thrown) >>
    /\ eresult[e] = Emitted("throw", Thrown)

\* C15: the action-specific pipeline is tried only when payload.action is
\* present, and strictly before the general one; once it has yielded a result
\* no general handler is invoked and emit returns that result; without an
\* action every handler invoked is a general one.
C15_SpecificFirst ==
  \A e \in Emits :
    /\ epc[e] = "specific" => (~Not(eaction[e]) /\ Under(e, GeneralName(e)) = {})
    /\ Not(eaction[e]) =>
         \A k \in 1..Len(elog[e]) :
           /\ elog[e][k].name = GeneralName(e)
           /\ \A ev \in Events, a \in Actions : elog[e][k].name # HookName(ev \o "/" \o a)
    /\ \A j, k \in 1..Len(elog[e]) :
         (j < k /\ elog[e][j].name = GeneralName(e)) => elog[e][k].name = GeneralName(e)
    /\ \A k \in Under(e, SpecificName(e)) :
         Truthy(elog[e][k].value) =>
           /\ Under(e, GeneralName(e)) = {}
           /\ epc[e] = "done" => eresult[e] = Emitted("return", elog[e][k].value)

\* C16: a handler registered for (eventName, action) is invoked only by emits
\* of that event with that action, and a handler registered for eventName
\* alone only by emits of that event.
C16_NoAliasing ==
  \A e \in Emits : \A k \in 1..Len(elog[e]) :
    /\ \A ev \in Events, a \in Actions :
         elog[e][k].name = HookName(ev \o "/" \o a) => (eevent[e] = ev /\ eaction[e] = a)
    /\ \A ev \in Events :
         elog[e][k].name = HookName(ev) => eevent[e] = ev

\* C17: handlers of one routing key are kept, and invoked, in registration
\* order, a prepended one before all that were registered before it; a
\* serial runs the handlers registered when it starts, from the first on, so
\* a handler whose unsubscribe handle was called is in no later emit.
C17_RegistrationOrder ==
  [][/\ \A h \in Handlers, n \in OnNames, prepend \in BOOLEAN :
          on(h, n, prepend) =>
            hooks'[HookName(n)] = IF prepend THEN <<h>> \o hooks[HookName(n)]
                                             ELSE hooks[HookName(n)] \o <<h>>
     /\ \A h \in Handlers :
          dispose(h) =>
            \A n \in HookNames :
              /\ \A k \in 1..Len(hooks'[n]) : hooks'[n][k] # h
              /\ hooks'[n] = SelectSeq(hooks[n], LAMBDA x : x # h)
     /\ \A e \in Emits :
          /\ (epc'[e] \in {"specific", "general"} /\ epc'[e] # epc[e])
               => equeue'[e] = hooks[ename'[e]]
          /\ Len(elog'[e]) = Len(elog[e]) + 1 =>
               /\ equeue[e] # <<>>
               /\ elog'[e][Len(elog'[e])].h = Head(equeue[e])
               /\ elog'[e][Len(elog'[e])].name = ename[e]
               /\ equeue'[e] \in {Tail(equeue[e]), <<>>}]_vars

\* H2 stands before H1 under one key and was invoked before it
C17_Witness ==
  \E e \in Emits :
    /\ epc[e] = "done"
    /\ hooks[HookName("push")] = <<"H2", "H1">>
    /\ elog[e] = << Invocation("H2", HookName("push"), Undef),
                    Invocation("H1", HookName("push"), "X") >>

\* C19: when the action-specific handlers return falsy values, a defined one
\* (0, '', false) among them, emit takes the specific pipeline to have yielded
\* nothing: it runs the general pipeline and returns what that yields,
\* undefined if it has no handler, never the specific handler's value.
C19_FalsyResultLost ==
  \A e \in Emits :
    ( /\ epc[e] = "done" /\ eresult[e].how = "return"
      /\ NoSpecificResult(e)
      /\ \E k \in Under(e, SpecificName(e)) : elog[e][k].value \in {False, Zero, Empty} )
    => /\ ename[e] = GeneralName(e)
       /\ Under(e, GeneralName(e)) = {} => eresult[e].value = Undef
       /\ \A k \in Under(e, GeneralName(e)) :
            Truthy(elog[e][k].value) => eresult[e].value = elog[e][k].value
       /\ \A k \in Under(e, GeneralName(e)) :
            elog[e][k].value \in {Undef, False} => k # Len(elog[e]) \/ eresult[e].value = Undef

\* specific H1 returned 0, no general handler ran, emit returned undefined
C19_Witness ==
  \E e \in Emits :
    /\ epc[e] = "done" /\ eevent[e] = "push" /\ eaction[e] = "opened"
    /\ elog[e] = << Invocation("H1", HookName("push/opened"), Zero) >>
    /\ eresult[e] = Emitted("return", Undef)

\* ---------------------------------------------- claims: reply correlation
\* the payload the store holds under key after the first n operations, as the
\* contract has it: the last put since the last take, if any
Held(key, n) ==
  LET ops == {k \in 1..n : hlog[k].key = key} IN
  IF ops = {} THEN NoEntry
  ELSE LET last == CHOOSE k \in ops : \A j \in ops : j <= k IN
       IF hlog[last].op = "put" THEN hlog[last].payload ELSE NoEntry

\* C10: after a put, however takeAndRemove calls on that key follow one
\* another, exactly one of them (the first) returns the payload and every
\* other returns nothing; no payload is ever returned twice.
C10_TakenOnce ==
  /\ \A k \in 1..Len(hlog) :
       hlog[k].op = "take" => hlog[k].payload = Held(hlog[k].key, k - 1)
  /\ \A k, j \in 1..Len(hlog) :
       ( /\ hlog[k].op = "take" /\ hlog[j].op = "take"
         /\ hlog[k].payload # NoEntry /\ hlog[k].payload = hlog[j].payload ) => k = j
  /\ \A key \in Keys : history[key] = Held(key, Len(hlog))

C10_Witness ==
  /\ Len(hlog) = 4
  /\ hlog[1] = HistOp("put", "k1", 1)
  /\ hlog[2] = HistOp("take", "k1", 1)
  /\ hlog[3] = HistOp("take", "k1", NoEntry)
  /\ hlog[4] = HistOp("take", "k1", NoEntry)

\* C13: an entry is never usable once replyTimeout has elapsed since its put,
\* accessed or not: the store holds no entry past its expiry (so it holds
\* only what was put within the last replyTimeout), and a takeAndRemove made
\* at or after the expiry returns nothing.
C13_ExpiredNeverReturned ==
  /\ [](\A key \in Keys : history[key] # NoEntry => now < hexp[key])
  /\ [][(Len(hlog') = Len(hlog) + 1 /\ hlog'[Len(hlog')].op = "take"
           /\ now >= hexp[hlog'[Len(hlog')].key])
          => hlog'[Len(hlog')].payload = NoEntry]_vars

\* a payload was put, its timeout elapsed untouched, and the take found nothing
C13_Witness ==
  /\ Len(hlog) = 2
  /\ hlog[1] = HistOp("put", "k1", 1)
  /\ hlog[2] = HistOp("take", "k1", NoEntry)
  /\ now >= ReplyTimeout

====
